---- MODULE Spec2Model ----
(***************************************************************************)
(* Model of the path-addressed plist document engine of plist_helper       *)
(* (class PlistHelper, src/src/plist_helper/helper.py).                    *)
(*                                                                         *)
(* A Python runtime value is a record                                      *)
(*     [cls, val, keys, items]                                             *)
(* cls   : the Python class of the object ("dict", "list", "int", ...)     *)
(* val   : the payload of a scalar, as an integer code                     *)
(* keys  : for a dict, its keys in insertion order                         *)
(* items : for a dict, the values parallel to keys; for a list or tuple,   *)
(*         the elements                                                    *)
(* For a list or dict, val is the identity of the object when the object   *)
(* belongs to a source document that is handed to merge, and 0 for every   *)
(* other object: two containers with the same val > 0 are one object.      *)
(* A path component is a record [t, s, i]: a str (t = "str", text s) or an *)
(* int (t = "int", number i).                                              *)
(* The result of a call is [err, data] (data: the document after the call) *)
(* or [err, value] for a read; err = "ok" when no exception is raised.     *)
(***************************************************************************)
EXTENDS Integers, Sequences, FiniteSets, TLC

VARIABLES plist_data, pre_data, op, path, value, err, created, calls,
          source_plist_info_type, source_plist, source_path, overwrite,
          returned, cli_module, args, file, file_before, pc, exit_code

\* The arguments of merge besides the target path
merge_args == <<source_plist_info_type, source_plist, source_path, overwrite>>

\* The state of a run of the command line: the module whose main runs, the
\* parsed arguments, the content of the target file now and when the run
\* began, the position of the process and its exit status
cli_vars == <<cli_module, args, file, file_before, pc, exit_code>>

vars == <<plist_data, pre_data, op, path, value, err, created, calls,
          source_plist_info_type, source_plist, source_path, overwrite,
          returned, cli_module, args, file, file_before, pc, exit_code>>

\* Number of engine calls made on one document in a behaviour.
MaxCalls == 1

\* Integer path components range over -MaxIdx .. MaxIdx.
MaxIdx == 4

-----------------------------------------------------------------------------
(* Python values *)

Scalar(c, n) == [cls |-> c, val |-> n, keys |-> <<>>, items |-> <<>>]

PyInt(n) == Scalar("int", n)

PyStr(n) == Scalar("str", n)

PyBool(n) == Scalar("bool", n)

PyFloat(n) == Scalar("float", n)

PyBytes(n) == Scalar("bytes", n)

PyDate(n) == Scalar("datetime", n)

PyNone == Scalar("NoneType", 0)

PyList(xs) == [cls |-> "list", val |-> 0, keys |-> <<>>, items |-> xs]

PyTuple(xs) == [cls |-> "tuple", val |-> 0, keys |-> <<>>, items |-> xs]

PyDict(ks, xs) == [cls |-> "dict", val |-> 0, keys |-> ks, items |-> xs]

\* Path components
S(s) == [t |-> "str", s |-> s, i |-> 0]

I(i) == [t |-> "int", s |-> "", i |-> i]

\* str(x) of a path component
PyStrOf(c) == IF c.t = "str" THEN c.s ELSE ToString(c.i)

\* int(x) of a path component: [ok, n]; a str converts when it is a numeral
PyIntOf(c) ==
    IF c.t = "int" THEN [ok |-> TRUE, n |-> c.i]
    ELSE IF \E n \in -MaxIdx..MaxIdx : ToString(n) = c.s
         THEN [ok |-> TRUE, n |-> CHOOSE n \in -MaxIdx..MaxIdx : ToString(n) = c.s]
         ELSE [ok |-> FALSE, n |-> 0]

\* Position (1-based) of key k in a key sequence, 0 when absent
KeyPos(ks, k) ==
    IF \E j \in 1..Len(ks) : ks[j] = k
    THEN CHOOSE j \in 1..Len(ks) : ks[j] = k
    ELSE 0

\* seq[i] of Python: 1-based position of index i in a list of length n,
\* 0 when the index is out of range (negative indices count from the end)
ListPos(n, i) ==
    IF 0 <= i /\ i < n THEN i + 1
    ELSE IF i < 0 /\ -n <= i THEN n + i + 1
    ELSE 0

\* list.insert(i, x) of Python
ListInsert(xs, i, x) ==
    LET n == Len(xs)
        at == IF i >= n THEN n
              ELSE IF i >= 0 THEN i
              ELSE IF n + i >= 0 THEN n + i
              ELSE 0
    IN  SubSeq(xs, 1, at) \o <<x>> \o SubSeq(xs, at + 1, n)

\* del seq[j] for a 1-based position j
SeqRemove(xs, j) == SubSeq(xs, 1, j - 1) \o SubSeq(xs, j + 1, Len(xs))

-----------------------------------------------------------------------------
(* Classification *)

\* ENTRY_DATA_TYPES: kind name -> the classes accepted ("class" and
\* "otherClasses")
ENTRY_DATA_TYPES ==
    [array   |-> {"list", "tuple"},
     bool    |-> {"bool"},
     data    |-> {"bytes", "bytearray"},
     date    |-> {"datetime"},
     dict    |-> {"dict"},
     integer |-> {"int"},
     real    |-> {"float"},
     string  |-> {"str"}]

KindNames == DOMAIN ENTRY_DATA_TYPES

\* isinstance(x, classes) for an object of class c: bool is a subclass of int
IsInstance(c, classes) == c \in classes \/ (c = "bool" /\ "int" \in classes)

\* __get_entry_data_type_by_class: [err, name]
get_entry_data_type_by_class(data) ==
    LET result == {k \in KindNames : IsInstance(data.cls, ENTRY_DATA_TYPES[k])}
    IN  IF Cardinality(result) = 0 THEN [err |-> "TypeError", name |-> ""]
        ELSE IF Cardinality(result) > 1 THEN [err |-> "OverflowError", name |-> ""]
        ELSE [err |-> "ok", name |-> CHOOSE k \in result : TRUE]

IsCollectionName(n) == n \in {"array", "dict"}

\* The integers that the writers of plistlib accept lie in -2^63 .. 2^64 - 1;
\* the model scales the range to -WriterIntLimit .. WriterIntLimit - 1 and
\* holds one integer outside of it (the parser of XML accepts any integer)
WriterIntLimit == 2 ^ 6

\* plistlib.dumps(value) succeeds: every object of the value is of a class the
\* writer supports (dict keys are str in every value of this model)
RECURSIVE plistlib_dumps_ok(_)
plistlib_dumps_ok(v) ==
    /\ v.cls \in {"str", "bool", "int", "float", "dict", "bytes", "bytearray",
                  "datetime", "list", "tuple"}
    /\ v.cls = "int" => (-WriterIntLimit <= v.val /\ v.val < WriterIntLimit)
    /\ \A j \in 1..Len(v.items) : plistlib_dumps_ok(v.items[j])


-----------------------------------------------------------------------------
(* Paths *)

\* A path argument: None, a list or tuple of components, a bare str, or a
\* bare object of another class (an int)
PathNone == [shape |-> "none", comps |-> <<>>]

PathList(cs) == [shape |-> "list", comps |-> cs]

PathTuple(cs) == [shape |-> "tuple", comps |-> cs]

PathStr(s) == [shape |-> "str", comps |-> <<S(s)>>]

PathInt(i) == [shape |-> "other", comps |-> <<I(i)>>]

\* __normalize_path: [err, path]; a bare non-str object becomes [str(path)]
normalize_path(p) ==
    LET new_path == IF p.shape = "none" THEN <<>>
                    ELSE IF p.shape \in {"list", "tuple", "str"} THEN p.comps
                    ELSE <<S(PyStrOf(p.comps[1]))>>
    IN  IF \E j \in 1..Len(new_path) : new_path[j].t \notin {"str", "int"}
        THEN [err |-> "InvalidPath", path |-> <<>>]
        ELSE [err |-> "ok", path |-> new_path]

-----------------------------------------------------------------------------
(* Document accessor *)

\* __get: walk the path from plist_data; [err, value]
RECURSIVE __get(_, _)
__get(entry, p) ==
    IF p = <<>> THEN [err |-> "ok", value |-> entry]
    ELSE
      LET path_part == Head(p)
          entry_data_type_spec == get_entry_data_type_by_class(entry)
      IN  IF entry_data_type_spec.err # "ok"
          THEN [err |-> entry_data_type_spec.err, value |-> entry]
          ELSE IF entry.cls = "dict"
          THEN LET j == KeyPos(entry.keys, PyStrOf(path_part))
               IN  IF j = 0 THEN [err |-> "KeyError", value |-> entry]
                   ELSE __get(entry.items[j], Tail(p))
          ELSE IF entry.cls = "list"
          THEN LET n == PyIntOf(path_part)
                   j == IF n.ok THEN ListPos(Len(entry.items), n.n) ELSE 0
               IN  IF j = 0 THEN [err |-> "KeyError", value |-> entry]
                   ELSE __get(entry.items[j], Tail(p))
          ELSE [err |-> "KeyError", value |-> entry]

\* exists: [err, found]; only KeyError is turned into False
FoundOf(e) ==
    IF e = "ok" THEN [err |-> "ok", found |-> TRUE]
    ELSE IF e = "KeyError" THEN [err |-> "ok", found |-> FALSE]
    ELSE [err |-> e, found |-> FALSE]

exists(data, p) == FoundOf(__get(data, p).err)

\* The document after the object that __get(data, p) returns has been
\* changed in place into new (p resolves in data)
RECURSIVE SetEntry(_, _, _)
SetEntry(data, p, new) ==
    IF p = <<>> THEN new
    ELSE LET j == IF data.cls = "dict"
                  THEN KeyPos(data.keys, PyStrOf(Head(p)))
                  ELSE ListPos(Len(data.items), PyIntOf(Head(p)).n)
         IN  [data EXCEPT !.items[j] = SetEntry(@, Tail(p), new)]

\* parent_entry[key] = value on a dict
DictSet(d, k, v) ==
    LET j == KeyPos(d.keys, k)
    IN  IF j = 0
        THEN [d EXCEPT !.keys = Append(@, k), !.items = Append(@, v)]
        ELSE [d EXCEPT !.items[j] = v]

Fail(e, data) == [err |-> e, data |-> data]

Done(data) == [err |-> "ok", data |-> data]

-----------------------------------------------------------------------------
(* Mutation engine.  Every operator returns [err, data]: the exception that *)
(* leaves the call ("ok" for a normal return) and the document afterwards.  *)
(* A handler is written as a chain of stages; a stage receives what the     *)
(* stages before it computed (the normalized path, the result of exists,    *)
(* the parent entry).                                                       *)

ParentPath(p) == SubSeq(p, 1, Len(p) - 1)

LastKey(p) == p[Len(p)]

\* Faulty variant of insert_into: the parent is mutated before plistlib is
\* asked whether the value is valid
insert_into_late_check(data, p, v, parent_entry, parent_name) ==
    LET key_int == PyIntOf(LastKey(p))
        mutated == IF parent_name = "array" /\ parent_entry.cls = "list"
                   THEN SetEntry(data, ParentPath(p),
                            [parent_entry EXCEPT
                                !.items = ListInsert(@, key_int.n, v)])
                   ELSE IF parent_name = "dict"
                   THEN SetEntry(data, ParentPath(p),
                            DictSet(parent_entry, PyStrOf(LastKey(p)), v))
                   ELSE data
    IN  IF parent_name = "array" /\ ~key_int.ok
        THEN Fail("InvalidIndex", data)
        ELSE IF parent_name = "array" /\ key_int.n > Len(parent_entry.items)
        THEN Fail("IndexOutOfRange", data)
        ELSE IF parent_name = "array" /\ parent_entry.cls # "list"
        THEN Fail("AttributeError", data)
        ELSE IF ~plistlib_dumps_ok(v) THEN Fail("InvalidPlistData", mutated)
        ELSE Done(mutated)

\* Faulty variant of insert_into: the index bound is off by one, an insert
\* at index == length is refused
insert_into_strict_bound(data, p, v, parent_entry, parent_name) ==
    LET key_int == PyIntOf(LastKey(p))
    IN  IF parent_name = "array" /\ ~key_int.ok
        THEN Fail("InvalidIndex", data)
        ELSE IF parent_name = "array" /\ key_int.n >= Len(parent_entry.items)
        THEN Fail("IndexOutOfRange", data)
        ELSE IF ~plistlib_dumps_ok(v) THEN Fail("InvalidPlistData", data)
        ELSE IF parent_name = "array"
        THEN IF parent_entry.cls = "list"
             THEN Done(SetEntry(data, ParentPath(p),
                       [parent_entry EXCEPT
                           !.items = ListInsert(@, key_int.n, v)]))
             ELSE Fail("AttributeError", data)
        ELSE IF parent_name = "dict"
        THEN Done(SetEntry(data, ParentPath(p),
                           DictSet(parent_entry, PyStrOf(LastKey(p)), v)))
        ELSE Done(data)

\* insert: the parent entry is known; key coercion, index bound, codec
\* check and the mutation of the parent
insert_into(data, p, v, parent_entry, parent_name) ==
    LET key_int == PyIntOf(LastKey(p))
    IN  IF parent_name = "array" /\ ~key_int.ok
        THEN Fail("InvalidIndex", data)
        ELSE IF parent_name = "array" /\ key_int.n > Len(parent_entry.items)
        THEN Fail("IndexOutOfRange", data)
        ELSE IF ~plistlib_dumps_ok(v) THEN Fail("InvalidPlistData", data)
        ELSE IF parent_name = "array"
        THEN IF parent_entry.cls = "list"
             THEN Done(SetEntry(data, ParentPath(p),
                       [parent_entry EXCEPT
                           !.items = ListInsert(@, key_int.n, v)]))
             ELSE Fail("AttributeError", data)
        ELSE IF parent_name = "dict"
        THEN Done(SetEntry(data, ParentPath(p),
                           DictSet(parent_entry, PyStrOf(LastKey(p)), v)))
        ELSE Done(data)

\* insert: the lookup of the parent entry and its classification
insert_parent(data, p, v, parent, parent_spec) ==
    IF parent.err = "KeyError" THEN Fail("NotFound", data)
    ELSE IF parent.err # "ok" THEN Fail(parent.err, data)
    ELSE IF parent_spec.err # "ok" THEN Fail(parent_spec.err, data)
    ELSE insert_into(data, p, v, parent.value, parent_spec.name)

\* Faulty variant of insert_at: the exists(path) check is missing
insert_at_no_exists_check(data, p, v, found) ==
    IF Len(p) = 0 THEN Fail("EmptyPath", data)
    ELSE IF get_entry_data_type_by_class(v).err # "ok"
    THEN Fail("InvalidValueType", data)
    ELSE IF found.err # "ok" THEN Fail(found.err, data)
    ELSE insert_parent(data, p, v, __get(data, ParentPath(p)),
                       get_entry_data_type_by_class(__get(data, ParentPath(p)).value))

\* insert: the checks on the normalized path, the value and exists(path)
insert_at(data, p, v, found) ==
    IF Len(p) = 0 THEN Fail("EmptyPath", data)
    ELSE IF get_entry_data_type_by_class(v).err # "ok"
    THEN Fail("InvalidValueType", data)
    ELSE IF found.err # "ok" THEN Fail(found.err, data)
    ELSE IF found.found THEN Fail("AlreadyExists", data)
    ELSE insert_parent(data, p, v, __get(data, ParentPath(p)),
                       get_entry_data_type_by_class(__get(data, ParentPath(p)).value))

\* insert: the check of the root and the normalization of the path
insert_root(data, v, root_data_type_spec, np) ==
    IF root_data_type_spec.err # "ok" THEN Fail(root_data_type_spec.err, data)
    ELSE IF ~IsCollectionName(root_data_type_spec.name)
    THEN Fail("RootNotContainer", data)
    ELSE IF np.err # "ok" THEN Fail(np.err, data)
    ELSE insert_at(data, np.path, v, exists(data, np.path))

\* insert(path, value)
insert(data, path_in, v) ==
    insert_root(data, v, get_entry_data_type_by_class(data), normalize_path(path_in))

\* Faulty variant of update_entry: with an array parent the value is
\* list-inserted at the index instead of assigned to it
update_entry_list_insert(data, p, v, parent_entry) ==
    IF Len(p) = 0 THEN Done(v)
    ELSE IF get_entry_data_type_by_class(parent_entry).name = "array"
    THEN Done(SetEntry(data, ParentPath(p),
              [parent_entry EXCEPT
                  !.items = ListInsert(@, PyIntOf(LastKey(p)).n, v)]))
    ELSE Done(SetEntry(data, ParentPath(p),
                       DictSet(parent_entry, PyStrOf(LastKey(p)), v)))

\* update: the entry exists and the value is valid; the assignment
update_entry(data, p, v, parent_entry) ==
    IF Len(p) = 0 THEN Done(v)
    ELSE IF get_entry_data_type_by_class(parent_entry).name = "array"
    THEN Done(SetEntry(data, ParentPath(p),
              [parent_entry EXCEPT
                  !.items[ListPos(Len(parent_entry.items),
                                  PyIntOf(LastKey(p)).n)] = v]))
    ELSE Done(SetEntry(data, ParentPath(p),
                       DictSet(parent_entry, PyStrOf(LastKey(p)), v)))

\* update: the checks, in the order of the code
update_at(data, p, v, root_data_type_spec, found) ==
    IF ~IsCollectionName(root_data_type_spec.name) /\ Len(p) > 0
    THEN Fail("RootNotContainer", data)
    ELSE IF get_entry_data_type_by_class(v).err # "ok"
    THEN Fail("InvalidValueType", data)
    ELSE IF found.err # "ok" THEN Fail(found.err, data)
    ELSE IF ~found.found THEN Fail("NotFound", data)
    ELSE IF ~plistlib_dumps_ok(v) THEN Fail("InvalidPlistData", data)
    ELSE update_entry(data, p, v, __get(data, ParentPath(p)).value)

update_root(data, v, root_data_type_spec, np) ==
    IF root_data_type_spec.err # "ok" THEN Fail(root_data_type_spec.err, data)
    ELSE IF np.err # "ok" THEN Fail(np.err, data)
    ELSE update_at(data, np.path, v, root_data_type_spec, exists(data, np.path))

\* update(path, value)
update(data, path_in, v) ==
    update_root(data, v, get_entry_data_type_by_class(data), normalize_path(path_in))

\* Faulty variant of delete_entry: with an array parent the last element is
\* removed (pop) instead of the addressed one
delete_entry_pop_last(data, p, parent_entry) ==
    IF get_entry_data_type_by_class(parent_entry).name = "array"
    THEN Done(SetEntry(data, ParentPath(p),
              [parent_entry EXCEPT
                  !.items = SeqRemove(@, Len(parent_entry.items))]))
    ELSE Done(SetEntry(data, ParentPath(p),
              [parent_entry EXCEPT
                  !.keys = SeqRemove(@, KeyPos(parent_entry.keys,
                                               PyStrOf(LastKey(p)))),
                  !.items = SeqRemove(@, KeyPos(parent_entry.keys,
                                                PyStrOf(LastKey(p))))]))

\* delete: the entry exists; del parent_entry[delete_key]
delete_entry(data, p, parent_entry) ==
    IF get_entry_data_type_by_class(parent_entry).name = "array"
    THEN Done(SetEntry(data, ParentPath(p),
              [parent_entry EXCEPT
                  !.items = SeqRemove(@, ListPos(Len(parent_entry.items),
                                                 PyIntOf(LastKey(p)).n))]))
    ELSE Done(SetEntry(data, ParentPath(p),
              [parent_entry EXCEPT
                  !.keys = SeqRemove(@, KeyPos(parent_entry.keys,
                                               PyStrOf(LastKey(p)))),
                  !.items = SeqRemove(@, KeyPos(parent_entry.keys,
                                                PyStrOf(LastKey(p))))]))

\* delete: the checks on the path and exists(path)
delete_at(data, p, found) ==
    IF Len(p) = 0 THEN Fail("CannotDeleteRoot", data)
    ELSE IF found.err # "ok" THEN Fail(found.err, data)
    ELSE IF ~found.found THEN Fail("NotFound", data)
    ELSE delete_entry(data, p, __get(data, ParentPath(p)).value)

delete_root(data, root_data_type_spec, np) ==
    IF root_data_type_spec.err # "ok" THEN Fail(root_data_type_spec.err, data)
    ELSE IF ~IsCollectionName(root_data_type_spec.name)
    THEN Fail("RootNotContainer", data)
    ELSE IF np.err # "ok" THEN Fail(np.err, data)
    ELSE delete_at(data, np.path, exists(data, np.path))

\* delete(path)
delete(data, path_in) ==
    delete_root(data, get_entry_data_type_by_class(data), normalize_path(path_in))

\* upsert: the dispatch on exists(path)
upsert_at(data, np, v, found) ==
    IF np.err # "ok" THEN Fail(np.err, data)
    ELSE IF found.err # "ok" THEN Fail(found.err, data)
    ELSE IF ~found.found THEN insert(data, PathList(np.path), v)
    ELSE update(data, PathList(np.path), v)

\* upsert(path, value)
upsert(data, path_in, v) ==
    upsert_at(data, normalize_path(path_in), v,
              exists(data, normalize_path(path_in).path))

\* The exception that leaves the except clause of insert_array_append after
\* delete(path) returned d: an exception of delete replaces the caught one
rollback_result(d, caught) ==
    Fail(IF d.err # "ok" THEN d.err ELSE caught, d.data)

\* The except clause of insert_array_append: when the target array was
\* created by this call, delete(path) runs with the path as it is at that
\* moment
rollback(data, created_target_array, p, caught) ==
    IF created_target_array
    THEN rollback_result(delete(data, PathList(p)), caught)
    ELSE Fail(caught, data)

\* insert_array_append: path.append(len(entry)) was done, insert(path, value)
\* returned ins
append_insert(created_target_array, appended, ins) ==
    IF ins.err # "ok"
    THEN rollback(ins.data, created_target_array, appended, ins.err)
    ELSE Done(ins.data)

\* insert_array_append: the entry at path was looked up and classified
append_entry(data, created_target_array, p, v, got, entry_data_type_spec) ==
    IF got.err # "ok" THEN rollback(data, created_target_array, p, got.err)
    ELSE IF entry_data_type_spec.err # "ok"
    THEN rollback(data, created_target_array, p, entry_data_type_spec.err)
    ELSE IF entry_data_type_spec.name # "array"
    THEN rollback(data, created_target_array, p, "NotContainer")
    ELSE append_insert(created_target_array,
                       Append(p, I(Len(got.value.items))),
                       insert(data, PathList(Append(p, I(Len(got.value.items)))), v))

\* The try block of insert_array_append; data is the document after the
\* array was created when it was missing
append_to_entry(data, created_target_array, p, v) ==
    append_entry(data, created_target_array, p, v, __get(data, p),
                 get_entry_data_type_by_class(__get(data, p).value))

WithCreated(r, c) == [err |-> r.err, data |-> r.data, created |-> c]

\* insert_array_append: creation of the missing array, then the try block
append_create(data, p, v, found, mk) ==
    IF found.err # "ok" THEN WithCreated(Fail(found.err, data), FALSE)
    ELSE IF found.found
    THEN WithCreated(append_to_entry(data, FALSE, p, v), FALSE)
    ELSE IF mk.err # "ok" THEN WithCreated(Fail(mk.err, data), FALSE)
    ELSE WithCreated(append_to_entry(mk.data, TRUE, p, v), TRUE)

append_root(data, v, root_data_type_spec, np) ==
    IF root_data_type_spec.err # "ok"
    THEN WithCreated(Fail(root_data_type_spec.err, data), FALSE)
    ELSE IF ~IsCollectionName(root_data_type_spec.name)
    THEN WithCreated(Fail("RootNotContainer", data), FALSE)
    ELSE IF np.err # "ok" THEN WithCreated(Fail(np.err, data), FALSE)
    ELSE IF Len(np.path) = 0 THEN WithCreated(Fail("EmptyPath", data), FALSE)
    ELSE append_create(data, np.path, v, exists(data, np.path),
                       insert(data, PathList(np.path), PyList(<<>>)))

\* insert_array_append(path, value): [err, data, created]
insert_array_append(data, path_in, v) ==
    append_root(data, v, get_entry_data_type_by_class(data), normalize_path(path_in))

-----------------------------------------------------------------------------
(* Read operations.  What a read returns to its caller is a record          *)
(*     [value, name, at, owned]                                             *)
(* value : the object returned (get, get_data; exists returns a bool)       *)
(* name  : the kind name returned by get_type                               *)
(* at    : the position in the document of the entry that was read          *)
(* owned : the positions inside value whose object was created for the      *)
(*         caller; the object at every other position of value is the       *)
(*         object the document itself holds there                           *)

Ret(v, n, at, owned) == [value |-> v, name |-> n, at |-> at, owned |-> owned]

NoResult == Ret(PyNone, "", <<>>, {})

\* The positions taken in items along a path that resolves in data
RECURSIVE PositionOf(_, _)
PositionOf(data, p) ==
    IF p = <<>> THEN <<>>
    ELSE IF data.cls = "dict"
    THEN <<KeyPos(data.keys, PyStrOf(Head(p)))>>
            \o PositionOf(data.items[KeyPos(data.keys, PyStrOf(Head(p)))], Tail(p))
    ELSE <<ListPos(Len(data.items), PyIntOf(Head(p)).n)>>
            \o PositionOf(data.items[ListPos(Len(data.items), PyIntOf(Head(p)).n)],
                          Tail(p))

RECURSIVE EntryAt(_, _)
EntryAt(data, q) ==
    IF q = <<>> THEN data ELSE EntryAt(data.items[Head(q)], Tail(q))

RECURSIVE AllPos(_)
AllPos(data) ==
    {<<>>} \cup UNION { { <<j>> \o q : q \in AllPos(data.items[j]) } :
                        j \in 1..Len(data.items) }

\* hasattr(var, "copy")
HasCopy(c) == c \in {"list", "dict", "bytearray"}

\* __get_variable_value_copy: var.copy() makes a new list or dict that holds
\* the same element objects; an object without copy() is returned itself
get_variable_value_copy(var, at) ==
    Ret(var, "", at, IF HasCopy(var.cls) THEN {<<>>} ELSE {})

Read(e, r) == [err |-> e, result |-> r]

\* get: the entry was looked up
get_entry(data, p, got) ==
    IF got.err # "ok" THEN Read(got.err, NoResult)
    ELSE Read("ok", get_variable_value_copy(got.value, PositionOf(data, p)))

get_at(data, np) ==
    IF np.err # "ok" THEN Read(np.err, NoResult)
    ELSE get_entry(data, np.path, __get(data, np.path))

\* get(path)
get(data, path_in) == get_at(data, normalize_path(path_in))

\* get_data()
get_data(data) == Read("ok", get_variable_value_copy(data, <<>>))

exists_at(data, np) ==
    IF np.err # "ok" THEN Read(np.err, NoResult)
    ELSE IF exists(data, np.path).err # "ok"
    THEN Read(exists(data, np.path).err, NoResult)
    ELSE Read("ok", Ret(PyBool(IF exists(data, np.path).found THEN 1 ELSE 0),
                        "", <<>>, {}))

\* exists(path), called with a path argument
exists_path(data, path_in) == exists_at(data, normalize_path(path_in))

get_type_entry(got, entry_data_type_spec) ==
    IF got.err # "ok" THEN Read(got.err, NoResult)
    ELSE IF entry_data_type_spec.err # "ok"
    THEN Read(entry_data_type_spec.err, NoResult)
    ELSE Read("ok", Ret(PyNone, entry_data_type_spec.name, <<>>, {}))

get_type_at(data, np) ==
    IF np.err # "ok" THEN Read(np.err, NoResult)
    ELSE get_type_entry(__get(data, np.path),
                        get_entry_data_type_by_class(__get(data, np.path).value))

\* get_type(path)
get_type(data, path_in) == get_type_at(data, normalize_path(path_in))

\* The document (or returned value) after the object at position q was
\* changed in place into new
RECURSIVE ReplaceAt(_, _, _)
ReplaceAt(data, q, new) ==
    IF q = <<>> THEN new
    ELSE [data EXCEPT !.items[Head(q)] = ReplaceAt(@, Tail(q), new)]

\* A mutation by the caller of a list or dict it holds: list.append(0) or
\* d["k"] = 0
Mutated(c) ==
    IF c.cls = "list" THEN [c EXCEPT !.items = Append(@, PyInt(0))]
    ELSE DictSet(c, "k", PyInt(0))

-----------------------------------------------------------------------------
(* Merge engine.  __merge walks the source entry and calls insert and       *)
(* update on the document as it goes; the document that a stage receives    *)
(* is the document as the calls before it left it.                          *)

PLIST_INFO_TYPES == {"file", "representation"}

\* The source document that the caller of merge holds, with content v: its
\* containers are objects with identities of their own, numbered from id by
\* position
RECURSIVE SourceDocument(_, _)
SourceDocument(v, id) ==
    IF v.cls \in {"list", "dict"}
    THEN [v EXCEPT !.val = id,
                   !.items = [j \in 1..Len(v.items) |->
                                 SourceDocument(v.items[j], id * 8 + j)]]
    ELSE v

\* Faulty variant of plistlib_load: the parsed tree is made of the objects
\* of the source document itself
plistlib_load_by_reference(doc) == doc

\* plistlib.load (in __parse_bytes and __parse_file): every object of the
\* parsed tree is built by the parser, none is an object of the source
RECURSIVE plistlib_load(_)
plistlib_load(doc) ==
    IF doc.cls \in {"list", "dict"}
    THEN [doc EXCEPT !.val = 0,
                     !.items = [j \in 1..Len(doc.items) |->
                                   plistlib_load(doc.items[j])]]
    ELSE doc

\* The objects of data that are the source object id
ObjectsOf(data, id, c) ==
    { EntryAt(data, q) : q \in { r \in AllPos(data) :
                                   /\ EntryAt(data, r).cls = c
                                   /\ EntryAt(data, r).val = id } }

\* The source document as its holder sees it, given the document data that
\* may hold objects of the source: an object that data holds is in the state
\* that data shows
RECURSIVE SourceSeen(_, _)
SourceSeen(doc, data) ==
    IF doc.cls \in {"list", "dict"} /\ doc.val > 0
       /\ ObjectsOf(data, doc.val, doc.cls) # {}
    THEN CHOOSE o \in ObjectsOf(data, doc.val, doc.cls) : TRUE
    ELSE [doc EXCEPT !.items = [j \in 1..Len(doc.items) |->
                                   SourceSeen(doc.items[j], data)]]

\* The document data as its holder sees it after the source object at
\* position q of doc was changed into new: an object of the source that
\* data holds is that changed object
RECURSIVE TargetSeen(_, _, _)
TargetSeen(data, old, new) ==
    IF data.cls = old.cls /\ old.val > 0 /\ data.val = old.val THEN new
    ELSE [data EXCEPT !.items = [j \in 1..Len(data.items) |->
                                    TargetSeen(data.items[j], old, new)]]

\* Faulty variant of ChildPath: the elements of a source array are counted
\* from 1
ChildPath_from_one(p, source_entry, k) ==
    Append(p, IF source_entry.cls = "dict"
              THEN S(source_entry.keys[k])
              ELSE I(k))

\* The target path of the recursive call for child k (1-based) of a source
\* collection: the index for an array, the key for a dict
ChildPath(p, source_entry, k) ==
    Append(p, IF source_entry.cls = "dict"
              THEN S(source_entry.keys[k])
              ELSE I(k - 1))

RECURSIVE __merge(_, _, _, _)

RECURSIVE merge_children(_, _, _, _, _)

\* The loop over the children of the source: child k was merged with result
\* r; an exception leaves the loop, with the document as it is then
merge_step(r, source_entry, p, ow, k) ==
    IF r.err # "ok" THEN r
    ELSE merge_children(r.data, source_entry, p, ow, k + 1)

\* Cases 3 and 6: the children of the source from the k-th on are merged
\* one after the other
merge_children(data, source_entry, p, ow, k) ==
    IF k > Len(source_entry.items) THEN Done(data)
    ELSE merge_step(__merge(data, source_entry.items[k],
                            PathList(ChildPath(p, source_entry, k)), ow),
                    source_entry, p, ow, k)

\* __merge: source and target both exist
merge_existing(data, source_entry, p, ow, target_data_spec, source_data_spec) ==
    IF target_data_spec.err # "ok" THEN Fail(target_data_spec.err, data)
    ELSE IF source_data_spec.err # "ok" THEN Fail(source_data_spec.err, data)
    ELSE IF \/ ~IsCollectionName(target_data_spec.name)
            \/ ~IsCollectionName(source_data_spec.name)
    THEN IF ow THEN update(data, PathList(p), source_entry) ELSE Done(data)
    ELSE merge_children(data, source_entry, p, ow, 1)

\* __merge: the special cases of the root, then the dispatch on exists
merge_at(data, source_entry, p, ow, root_name, found) ==
    IF Len(p) > 0 /\ ~IsCollectionName(root_name)
    THEN Fail("RootNotContainer", data)
    ELSE IF Len(p) = 0 /\ ~IsCollectionName(root_name)
    THEN IF ow THEN Done(source_entry) ELSE Done(data)
    ELSE IF found.err # "ok" THEN Fail(found.err, data)
    ELSE IF ~found.found THEN insert(data, PathList(p), source_entry)
    ELSE merge_existing(data, source_entry, p, ow,
                        get_entry_data_type_by_class(__get(data, p).value),
                        get_entry_data_type_by_class(source_entry))

merge_root(data, source_entry, ow, np, root_data_type_spec) ==
    IF np.err # "ok" THEN Fail(np.err, data)
    ELSE IF root_data_type_spec.err # "ok"
    THEN Fail(root_data_type_spec.err, data)
    ELSE merge_at(data, source_entry, np.path, ow, root_data_type_spec.name,
                  exists(data, np.path))

\* __merge(source_entry, target_path, overwrite)
__merge(data, source_entry, target_path, ow) ==
    merge_root(data, source_entry, ow, normalize_path(target_path),
               get_entry_data_type_by_class(data))

\* merge: the source entry was looked up in the parsed source
merge_from(data, got, target_path, ow) ==
    IF got.err # "ok" THEN Fail("InvalidSourcePath", data)
    ELSE __merge(data, got.value, target_path, ow)

merge_parsed(data, parsed, np, target_path, ow) ==
    IF np.err # "ok" THEN Fail(np.err, data)
    ELSE merge_from(data, __get(parsed, np.path), target_path, ow)

\* merge(source_plist_info_type, source_plist_info, source_path, target_path,
\* overwrite); source_plist_info is given as the source document it denotes,
\* ow_arg is the object passed as overwrite
merge(data, info_type, source_plist_info, source_path_in, target_path, ow_arg) ==
    IF ow_arg.cls # "bool" THEN Fail("InvalidOverwrite", data)
    ELSE IF info_type \notin PLIST_INFO_TYPES
    THEN Fail("InvalidSourceType", data)
    ELSE merge_parsed(data, plistlib_load(source_plist_info),
                      normalize_path(source_path_in), target_path,
                      ow_arg.val = 1)

-----------------------------------------------------------------------------
(* Files and the command line.  The content of a file is a record          *)
(*     [state, format, data]                                               *)
(* state  : "complete" (a whole plist document), "partial" (the first      *)
(*          bytes of a document), "empty" (no bytes) or "absent"           *)
(* format : the wire format of a complete document ("xml", "binary")       *)
(* data   : the document that a complete file parses to                    *)
(* The outcome of main up to its post step is a record                     *)
(*     [pc, exit_code, op, value, err, pre, data]                          *)
(* pc        : "exit" (the process has exited with exit_code), "write"     *)
(*             (plist.write() is about to run) or "convert" (convert_file  *)
(*             is about to rewrite the file)                               *)
(* op        : the engine method that was called, "none" when none was     *)
(* value     : the value handed to the engine method                       *)
(* err       : the exception that ended the run, "ok" when none            *)
(* pre, data : the document as parsed from the file and as the engine      *)
(*             call left it                                                *)

FileOf(data, fmt) == [state |-> "complete", format |-> fmt, data |-> data]

EmptyFile == [state |-> "empty", format |-> "", data |-> PyNone]

PartialFile == [state |-> "partial", format |-> "", data |-> PyNone]

AbsentFile == [state |-> "absent", format |-> "", data |-> PyNone]

\* A --value argument: not given (None), or the text given
NoValue == [given |-> FALSE, text |-> ""]

Literal(text) == [given |-> TRUE, text |-> text]

\* The subcommands of each command line module (those that this model
\* follows): cli.py has no insertArrayAppend, update and upsert.  cli.py
\* runs the PlistHelper of helper.py; the module _plist that _cli.py imports
\* its PlistHelper from is not among the sources, and the PlistHelper of
\* helper.py, which has the methods that _cli.py calls, stands for it.
__ACTIONS(m) ==
    IF m = "cli"
    THEN {"convertFile", "delete", "exists", "getValue", "insert"}
    ELSE {"convertFile", "delete", "exists", "getValue", "insert",
          "insertArrayAppend", "update", "upsert"}

\* The subcommands whose argument definitions hold data_type and value
HasValueArguments(a) == a \in {"insert", "insertArrayAppend", "update", "upsert"}

\* main_method_post of a subcommand
main_method_post(a) ==
    IF a \in {"delete", "insert", "insertArrayAppend", "update", "upsert"}
    THEN "write_to_file"
    ELSE IF a \in {"exists", "getValue"} THEN "output_simple_result"
    ELSE "none"

TRUTHY_VALUES == {"t", "true", "y", "yes", "1"}

\* The texts given as --value, and what Python makes of each:
\* text.strip().lower(), int(text) / float(text), fromisoformat(text)
Texts == <<"3", "abc", " YES ", "2020-01-01">>

StripLower(text) == IF text = " YES " THEN "yes" ELSE text

IsIsoDate(text) == text = "2020-01-01"

\* The integer code of the str, bytes or datetime made from a text
TextCode(text) == 10 + CHOOSE j \in 1..Len(Texts) : Texts[j] = text

\* The conversion of the value to the data type (cli.py converts in
\* __handle_arguments, _cli.py in __convert_provided_value_to_data_type):
\* [err, value].  A value that was not given is None.
convert_provided_value_to_data_type(value_data_type, v) ==
    IF value_data_type = "array" THEN [err |-> "ok", value |-> PyList(<<>>)]
    ELSE IF value_data_type = "dict" THEN [err |-> "ok", value |-> PyDict(<<>>, <<>>)]
    ELSE IF value_data_type = "bool"
    THEN IF ~v.given THEN [err |-> "AttributeError", value |-> PyNone]
         ELSE [err |-> "ok",
               value |-> PyBool(IF StripLower(v.text) \in TRUTHY_VALUES
                                THEN 1 ELSE 0)]
    ELSE IF value_data_type = "data"
    THEN IF ~v.given THEN [err |-> "AttributeError", value |-> PyNone]
         ELSE [err |-> "ok", value |-> PyBytes(TextCode(v.text))]
    ELSE IF value_data_type = "date"
    THEN IF ~v.given THEN [err |-> "TypeError", value |-> PyNone]
         ELSE IF ~IsIsoDate(v.text) THEN [err |-> "ValueError", value |-> PyNone]
         ELSE [err |-> "ok", value |-> PyDate(TextCode(v.text))]
    ELSE IF value_data_type = "integer"
    THEN IF ~v.given THEN [err |-> "TypeError", value |-> PyNone]
         ELSE IF ~PyIntOf(S(v.text)).ok THEN [err |-> "ValueError", value |-> PyNone]
         ELSE [err |-> "ok", value |-> PyInt(PyIntOf(S(v.text)).n)]
    ELSE IF value_data_type = "real"
    THEN IF ~v.given THEN [err |-> "TypeError", value |-> PyNone]
         ELSE IF ~PyIntOf(S(v.text)).ok THEN [err |-> "ValueError", value |-> PyNone]
         ELSE [err |-> "ok", value |-> PyFloat(PyIntOf(S(v.text)).n)]
    ELSE IF ~v.given THEN [err |-> "ok", value |-> PyNone]
    ELSE [err |-> "ok", value |-> PyStr(TextCode(v.text))]

\* value_specified of __handle_arguments: argparse always stores the key
\* "value" (None when --value is not given); cli.py tests for the key only,
\* _cli.py also for None
value_specified(m, v) == IF m = "cli" THEN TRUE ELSE v.given

Exited(code, name, v, e, pre, data) ==
    [pc |-> "exit", exit_code |-> code, op |-> name, value |-> v, err |-> e,
     pre |-> pre, data |-> data]

\* Faulty variant of post_step: the post step runs although the main method
\* raised
post_step_after_raise(a, v, pre, r, result) ==
    IF main_method_post(a) = "write_to_file"
    THEN [pc |-> "write", exit_code |-> 0, op |-> a, value |-> v, err |-> r.err,
          pre |-> pre, data |-> r.data]
    ELSE Exited(IF r.err = "ok" THEN 0 ELSE 1, a, v, r.err, pre, r.data)

\* __execute_main_method after the main method returned r (result: the value
\* it returned): an exception is raised again and ends the process with
\* status 1; otherwise the post step runs.  A bool result exits with
\* int(not result).
post_step(a, v, pre, r, result) ==
    IF r.err # "ok" THEN Exited(1, a, v, r.err, pre, r.data)
    ELSE IF main_method_post(a) = "output_simple_result"
    THEN IF result.cls = "bool"
         THEN Exited(1 - result.val, a, v, "ok", pre, r.data)
         ELSE IF result.cls \in {"dict", "tuple", "list"}
         THEN Exited(1, a, v, "ValueError", pre, r.data)
         ELSE Exited(0, a, v, "ok", pre, r.data)
    ELSE IF main_method_post(a) = "write_to_file"
    THEN [pc |-> "write", exit_code |-> 0, op |-> a, value |-> v, err |-> "ok",
          pre |-> pre, data |-> r.data]
    ELSE Exited(0, a, v, "ok", pre, r.data)

\* A read as the outcome of a main method
ReadOutcome(data, rd) == [err |-> rd.err, data |-> data, result |-> rd.result.value]

\* action_spec["main_method"](plist_target, **main_method_kwargs)
main_method(a, data, p, v) ==
    IF a = "delete" THEN delete(data, p)
    ELSE IF a = "insert" THEN insert(data, p, v)
    ELSE IF a = "insertArrayAppend"
    THEN [err |-> insert_array_append(data, p, v).err,
          data |-> insert_array_append(data, p, v).data]
    ELSE IF a = "update" THEN update(data, p, v)
    ELSE IF a = "upsert" THEN upsert(data, p, v)
    ELSE IF a = "exists" THEN ReadOutcome(data, exists_path(data, p))
    ELSE ReadOutcome(data, get(data, p))

main_method_result(a, r) ==
    IF a \in {"exists", "getValue"} /\ r.err = "ok" THEN r.result ELSE PyNone

__execute_main_method(a, data, p, v, r) ==
    post_step(a, v, data, r, main_method_result(a, r))

\* The value was converted with outcome c
converted(a, data, p, c) ==
    IF c.err # "ok" THEN Exited(1, "none", PyNone, c.err, data, data)
    ELSE __execute_main_method(a, data, p, c.value,
                               main_method(a, data, p, c.value))

\* The checks of the combination of data type and value
check_value(args_in, data, specified) ==
    IF ~HasValueArguments(args_in.action_name)
    THEN __execute_main_method(args_in.action_name, data, PathList(args_in.path),
                               PyNone,
                               main_method(args_in.action_name, data,
                                           PathList(args_in.path), PyNone))
    ELSE IF args_in.value_data_type \in {"array", "dict"} /\ specified
    THEN Exited(1, "none", PyNone, "RuntimeError", data, data)
    ELSE IF args_in.value_data_type \notin {"array", "dict"} /\ ~specified
    THEN Exited(1, "none", PyNone, "RuntimeError", data, data)
    ELSE converted(args_in.action_name, data, PathList(args_in.path),
                   convert_provided_value_to_data_type(args_in.value_data_type,
                                                       args_in.value))

\* __parse_file / PlistHelper("file", plist): only a complete file parses
parse_file(f) ==
    IF f.state = "complete" THEN [err |-> "ok", format |-> f.format, data |-> f.data]
    ELSE [err |-> "ValueError", format |-> "", data |-> PyNone]

\* __handle_arguments: a classmethod (convert_file) gets the file name, a
\* method gets the PlistHelper of the file; exit status 101 when the file
\* cannot be opened
__handle_arguments(m, args_in, parsed) ==
    IF args_in.action_name = "convertFile"
    THEN IF parsed.err # "ok"
         THEN Exited(1, "convert_file", PyNone, parsed.err, PyNone, PyNone)
         ELSE [pc |-> "convert", exit_code |-> 0, op |-> "convert_file",
               value |-> PyNone, err |-> "ok", pre |-> parsed.data,
               data |-> parsed.data]
    ELSE IF parsed.err # "ok"
    THEN Exited(101, "none", PyNone, "OpenError", PyNone, PyNone)
    ELSE check_value(args_in, parsed.data, value_specified(m, args_in.value))

\* parser.parse_args(): argparse exits with status 2 for a subcommand that
\* the module does not have and for a missing or unknown --data-type
parse_args(m, args_in) ==
    /\ args_in.action_name \in __ACTIONS(m)
    /\ HasValueArguments(args_in.action_name)
          => args_in.value_data_type \in KindNames

\* main() of the module m, run with the arguments args_in on the file f
main(m, args_in, f) ==
    IF ~parse_args(m, args_in)
    THEN Exited(2, "none", PyNone, "ArgparseError", PyNone, PyNone)
    ELSE __handle_arguments(m, args_in, parse_file(f))

\* plistlib.dump(value, fp) succeeds
plistlib_dump_ok(v) == plistlib_dumps_ok(v)

-----------------------------------------------------------------------------
(* Inputs *)

\* Documents a PlistHelper can be constructed from (plistlib parses arrays
\* to list, never to tuple)
Docs ==
    { PyDict(<<"a", "l", "f">>,
             <<PyInt(1), PyList(<<PyInt(1), PyStr(2)>>), PyBool(1)>>),
      PyDict(<<>>, <<>>),
      PyList(<<PyInt(1), PyDict(<<"a">>, <<PyStr(1)>>)>>),
      PyInt(5),
      PyBool(1) }

\* Values passed to insert, insert_array_append, update and upsert: valid
\* plist values, None (of no plist kind), and a list that holds None
\* (classified as array, refused by plistlib)
Values ==
    { PyInt(7), PyBool(0), PyNone, PyList(<<>>), PyList(<<PyNone>>),
      PyTuple(<<PyInt(1)>>) }

\* Path arguments
Paths ==
    { PathNone, PathStr("a"), PathInt(0),
      PathList(<<[t |-> "float", s |-> "", i |-> 0]>>),
      PathTuple(<<S("b")>>), PathList(<<S("l")>>),
      PathList(<<S("a"), S("b")>>), PathList(<<S("z"), S("b")>>),
      PathList(<<S("f"), S("x")>>),
      PathList(<<S("l"), I(0)>>), PathList(<<S("l"), I(2)>>),
      PathList(<<S("l"), I(3)>>), PathList(<<S("l"), I(-1)>>),
      PathList(<<S("l"), I(-MaxIdx)>>), PathList(<<S("l"), S("x")>>),
      PathList(<<I(2)>>), PathList(<<I(-MaxIdx)>>),
      PathList(<<I(1), S("b")>>) }

\* Contents of the source documents of merge (plistlib parses dict keys to
\* str and arrays to list)
Sources ==
    { PyDict(<<"2", "4">>, <<PyInt(9), PyInt(8)>>),
      PyDict(<<"2", "-1">>, <<PyDict(<<"a">>, <<PyInt(6)>>),
                              PyDict(<<"b">>, <<PyInt(5)>>)>>),
      PyDict(<<ToString(-MaxIdx)>>, <<PyInt(9)>>),
      PyDict(<<"0", "x">>, <<PyInt(9), PyInt(8)>>),
      PyDict(<<"l", "a">>,
             <<PyList(<<PyInt(9), PyInt(8), PyInt(7)>>),
               PyDict(<<"b">>, <<PyStr(3)>>)>>),
      PyList(<<PyInt(9), PyDict(<<"a", "c">>, <<PyInt(6), PyBool(0)>>)>>),
      PyList(<<PyInt(9), PyInt(8), PyInt(7), PyInt(6)>>),
      PyStr(3) }

\* Source path arguments of merge
SourcePaths == { PathNone, PathStr("a") }

\* Target path arguments of merge
TargetPaths ==
    { PathNone, PathStr("l"), PathList(<<S("a")>>),
      PathList(<<S("z"), S("b")>>), PathList(<<I(1)>>),
      PathList(<<[t |-> "float", s |-> "", i |-> 0]>>) }

\* Objects passed as overwrite
Overwrites == { PyBool(0), PyBool(1), PyInt(1) }

SourceInfoTypes == { "representation", "stream" }

\* Paths and values of the calls made on the document after a merge
AfterPaths ==
    { PathList(<<S("l")>>), PathList(<<S("l"), I(0)>>),
      PathList(<<S("a"), S("b")>>), PathList(<<S("a"), S("z")>>) }

AfterValues == { PyInt(7) }

\* The command line modules
Modules == { "cli", "_cli" }

\* Target files of the command line: XML and binary documents, one of them
\* an XML document with an integer that no writer accepts, and no file
Files ==
    { FileOf(PyDict(<<"a", "l", "f">>,
                    <<PyInt(1), PyList(<<PyInt(1), PyStr(2)>>), PyBool(1)>>),
             "xml"),
      FileOf(PyDict(<<"a", "big">>, <<PyInt(1), PyInt(2 * WriterIntLimit)>>),
             "xml"),
      FileOf(PyInt(5), "binary"),
      AbsentFile }

\* The --entry arguments of a run
EntryArguments ==
    { <<>>, <<S("a")>>, <<S("z")>>, <<S("l"), S("2")>> }

NoArgs ==
    [action_name |-> "", path |-> <<>>, value_data_type |-> "",
     value |-> NoValue, output_format |-> "xml"]

\* Parsed command lines: a subcommand with its --entry, --data-type (""
\* when not given), --value and --format arguments
Argvs ==
    { [action_name |-> a, path |-> p, value_data_type |-> t, value |-> v,
       output_format |-> "xml"] :
        a \in {"insert", "insertArrayAppend", "update", "upsert"},
        p \in EntryArguments, t \in KindNames \cup {""},
        v \in {NoValue} \cup {Literal(Texts[j]) : j \in 1..Len(Texts)} }
    \cup
    { [action_name |-> a, path |-> p, value_data_type |-> "", value |-> NoValue,
       output_format |-> "xml"] :
        a \in {"delete", "exists", "getValue"}, p \in EntryArguments }
    \cup
    { [action_name |-> "convertFile", path |-> <<>>, value_data_type |-> "",
       value |-> NoValue, output_format |-> f] : f \in {"xml", "binary"} }

-----------------------------------------------------------------------------
(* The state machine: a document is constructed, then engine calls are made *)
(* on it.  pre_data is the document before the last call, op/path/value     *)
(* are the call and its arguments, err its outcome.                         *)

\* No engine call has been made
NoCall ==
    /\ op = "new"
    /\ path = PathNone
    /\ value = PyNone
    /\ err = "ok"
    /\ created = FALSE
    /\ calls = 0
    /\ source_plist_info_type = "representation"
    /\ source_plist = PyNone
    /\ source_path = PathNone
    /\ overwrite = PyBool(1)
    /\ returned = NoResult

\* The document was constructed from a representation: no command line, no
\* file
Init ==
    /\ plist_data \in Docs
    /\ pre_data = plist_data
    /\ NoCall
    /\ cli_module = "none"
    /\ args = NoArgs
    /\ file = AbsentFile
    /\ file_before = AbsentFile
    /\ pc = "api"
    /\ exit_code = 0

Call(name, p, v, r) ==
    /\ calls < MaxCalls
    /\ calls' = calls + 1
    /\ pre_data' = plist_data
    /\ op' = name
    /\ path' = p
    /\ value' = v
    /\ err' = r.err
    /\ plist_data' = r.data
    /\ UNCHANGED cli_vars

Insert ==
    \E p \in Paths, v \in Values :
        /\ Call("insert", p, v, insert(plist_data, p, v))
        /\ created' = FALSE
        /\ UNCHANGED merge_args
        /\ returned' = NoResult

InsertArrayAppend ==
    \E p \in Paths, v \in Values :
        /\ Call("insert_array_append", p, v, insert_array_append(plist_data, p, v))
        /\ created' = insert_array_append(plist_data, p, v).created
        /\ UNCHANGED merge_args
        /\ returned' = NoResult

Update ==
    \E p \in Paths, v \in Values :
        /\ Call("update", p, v, update(plist_data, p, v))
        /\ created' = FALSE
        /\ UNCHANGED merge_args
        /\ returned' = NoResult

Delete ==
    \E p \in Paths :
        /\ Call("delete", p, PyNone, delete(plist_data, p))
        /\ created' = FALSE
        /\ UNCHANGED merge_args
        /\ returned' = NoResult

Upsert ==
    \E p \in Paths, v \in Values :
        /\ Call("upsert", p, v, upsert(plist_data, p, v))
        /\ created' = FALSE
        /\ UNCHANGED merge_args
        /\ returned' = NoResult

Next == Insert \/ InsertArrayAppend \/ Update \/ Delete \/ Upsert

Spec == Init /\ [][Next]_vars

\* The merge engine: merges of source documents into the document, then a
\* later call on the document or a change of the source.  value is the
\* source document as it was handed to merge, source_plist the source
\* document as its holder sees it after the call.
Merge ==
    \E t \in SourceInfoTypes, src \in Sources, sp \in SourcePaths,
       tp \in TargetPaths, ow \in Overwrites :
        /\ op \in {"new", "merge"}
        /\ Call("merge", tp, SourceDocument(src, 1),
                merge(plist_data, t, SourceDocument(src, 1), sp, tp, ow))
        /\ created' = FALSE
        /\ source_plist_info_type' = t
        /\ source_plist' = SourceSeen(SourceDocument(src, 1),
                              merge(plist_data, t, SourceDocument(src, 1),
                                    sp, tp, ow).data)
        /\ source_path' = sp
        /\ overwrite' = ow
        /\ returned' = NoResult

\* A call made on the document after a merge has succeeded; the holder of
\* the source document then sees the objects of the source in the state
\* the call left them in
AfterMerge(name, p, v, r) ==
    /\ op = "merge"
    /\ err = "ok"
    /\ pre_data' = plist_data
    /\ op' = name
    /\ path' = p
    /\ value' = v
    /\ err' = r.err
    /\ plist_data' = r.data
    /\ source_plist' = SourceSeen(source_plist, r.data)
    /\ returned' = NoResult
    /\ UNCHANGED <<calls, source_plist_info_type, source_path, overwrite>>
    /\ UNCHANGED cli_vars

MergeThenInsert ==
    \E p \in AfterPaths, v \in AfterValues :
        /\ AfterMerge("insert", p, v, insert(plist_data, p, v))
        /\ created' = FALSE

MergeThenInsertArrayAppend ==
    \E p \in AfterPaths, v \in AfterValues :
        /\ AfterMerge("insert_array_append", p, v,
                      insert_array_append(plist_data, p, v))
        /\ created' = insert_array_append(plist_data, p, v).created

MergeThenUpdate ==
    \E p \in AfterPaths, v \in AfterValues :
        /\ AfterMerge("update", p, v, update(plist_data, p, v))
        /\ created' = FALSE

MergeThenDelete ==
    \E p \in AfterPaths :
        /\ AfterMerge("delete", p, PyNone, delete(plist_data, p))
        /\ created' = FALSE

\* After a merge has succeeded, the holder of the source document mutates a
\* list or dict of it; the document sees the change in every object of the
\* source that it holds
MutateSource ==
    /\ op = "merge"
    /\ err = "ok"
    /\ \E q \in AllPos(source_plist) :
          /\ EntryAt(source_plist, q).cls \in {"list", "dict"}
          /\ source_plist' = ReplaceAt(source_plist, q,
                                       Mutated(EntryAt(source_plist, q)))
          /\ plist_data' = TargetSeen(plist_data, EntryAt(source_plist, q),
                                      Mutated(EntryAt(source_plist, q)))
    /\ pre_data' = plist_data
    /\ op' = "mutate_source"
    /\ UNCHANGED <<path, value, err, created, calls, returned,
                   source_plist_info_type, source_path, overwrite>>
    /\ UNCHANGED cli_vars

NextMerge ==
    \/ Merge
    \/ MergeThenInsert
    \/ MergeThenInsertArrayAppend
    \/ MergeThenUpdate
    \/ MergeThenDelete
    \/ MutateSource

SpecMerge == Init /\ [][NextMerge]_vars

\* The read operations: a read leaves the document as it is and hands r to
\* the caller
ReadCall(name, p, r) ==
    /\ calls < MaxCalls
    /\ calls' = calls + 1
    /\ pre_data' = plist_data
    /\ op' = name
    /\ path' = p
    /\ value' = PyNone
    /\ err' = r.err
    /\ returned' = r.result
    /\ created' = FALSE
    /\ UNCHANGED <<plist_data, merge_args>>
    /\ UNCHANGED cli_vars

Get == \E p \in Paths : ReadCall("get", p, get(plist_data, p))

GetData == ReadCall("get_data", PathNone, get_data(plist_data))

Exists == \E p \in Paths : ReadCall("exists", p, exists_path(plist_data, p))

GetType == \E p \in Paths : ReadCall("get_type", p, get_type(plist_data, p))

\* The caller mutates a list or dict of the value that get or get_data
\* returned, at any nesting depth r: the object is the caller's own when r
\* is owned, otherwise it is the object the document holds at returned.at \o r
MutateResult ==
    /\ op \in {"get", "get_data"}
    /\ err = "ok"
    /\ \E r \in AllPos(returned.value) :
          /\ EntryAt(returned.value, r).cls \in {"list", "dict"}
          /\ returned' = [returned EXCEPT
                           !.value = ReplaceAt(@, r, Mutated(EntryAt(returned.value, r)))]
          /\ plist_data' = IF r \in returned.owned THEN plist_data
                           ELSE ReplaceAt(plist_data, returned.at \o r,
                                          Mutated(EntryAt(returned.value, r)))
    /\ pre_data' = plist_data
    /\ op' = "mutate_result"
    /\ UNCHANGED <<path, value, err, created, calls, merge_args>>
    /\ UNCHANGED cli_vars

NextRead == Get \/ GetData \/ Exists \/ GetType \/ MutateResult

SpecRead == Init /\ [][NextRead]_vars

\* The command line: one run of main of a module on a target file.  The
\* steps of write and of convert_file on the file are steps of their own;
\* the process can be killed between any two of them.
InitCli ==
    /\ plist_data = PyNone
    /\ pre_data = PyNone
    /\ NoCall
    /\ cli_module \in Modules
    /\ args = NoArgs
    /\ file \in Files
    /\ file_before = file
    /\ pc = "start"
    /\ exit_code = 0

\* The process moves to position p and status c; the engine state stays
CliStep(p, c, e) ==
    /\ pc' = p
    /\ exit_code' = c
    /\ err' = e
    /\ UNCHANGED <<plist_data, pre_data, op, path, value, created, calls,
                   merge_args, returned, cli_module, args, file_before>>

\* main() from parse_args to the post step
MainRun(args_in, r) ==
    /\ pc = "start"
    /\ args' = args_in
    /\ pc' = r.pc
    /\ exit_code' = r.exit_code
    /\ op' = r.op
    /\ path' = PathList(args_in.path)
    /\ value' = r.value
    /\ err' = r.err
    /\ pre_data' = r.pre
    /\ plist_data' = r.data
    /\ UNCHANGED <<created, calls, merge_args, returned, cli_module, file,
                   file_before>>

Main == \E args_in \in Argvs : MainRun(args_in, main(cli_module, args_in, file))

\* write: plistlib.dump(plist_data, tmp) into the temporary file; an
\* exception of the writer ends the process with status 1
WriteDump ==
    /\ pc = "write"
    /\ IF plistlib_dump_ok(plist_data)
       THEN CliStep("dumped", 0, "ok")
       ELSE CliStep("exit", 1, "OverflowError")
    /\ UNCHANGED file

\* write: open(output_file, "wb") truncates the target file
WriteOpen ==
    /\ pc = "dumped"
    /\ file' = EmptyFile
    /\ CliStep("opened", 0, "ok")

\* write: fp.write(tmp.read()) has written a part of the bytes
WriteCopyPart ==
    /\ pc = "opened"
    /\ file' = PartialFile
    /\ CliStep("copying", 0, "ok")

\* write: fp.write(tmp.read()) has written all bytes and the file is closed;
\* the format is the format the file was parsed in
WriteCopy ==
    /\ pc \in {"opened", "copying"}
    /\ file' = FileOf(plist_data, file_before.format)
    /\ CliStep("written", 0, "ok")

\* main: __exit(0) after the post step
Exit ==
    /\ pc = "written"
    /\ CliStep("exit", 0, "ok")
    /\ UNCHANGED file

\* convert_file: open(plist_file, "wb") truncates the file
ConvertOpen ==
    /\ pc = "convert"
    /\ file' = EmptyFile
    /\ CliStep("converting", 0, "ok")

\* convert_file: plistlib.dump(plist_data, fp) writes into the file itself;
\* an exception of the writer leaves the bytes written so far
ConvertDump ==
    /\ pc = "converting"
    /\ IF plistlib_dump_ok(plist_data)
       THEN /\ file' = FileOf(plist_data, args.output_format)
            /\ CliStep("exit", 0, "ok")
       ELSE /\ file' = PartialFile
            /\ CliStep("exit", 1, "OverflowError")

\* The process is killed while write or convert_file is under way
Crash ==
    /\ pc \in {"write", "dumped", "opened", "copying", "convert", "converting"}
    /\ CliStep("crashed", 137, err)
    /\ UNCHANGED file

NextCli ==
    \/ Main
    \/ WriteDump
    \/ WriteOpen
    \/ WriteCopyPart
    \/ WriteCopy
    \/ Exit
    \/ ConvertOpen
    \/ ConvertDump
    \/ Crash

SpecCli == InitCli /\ [][NextCli]_vars

-----------------------------------------------------------------------------
(* Vocabulary of the properties *)

\* The last call's path argument was accepted by __normalize_path
PathOk == normalize_path(path).err = "ok"

\* The normalized path of the last call
NPath == normalize_path(path).path

\* p resolves in data: get(p) returns an entry
Resolves(data, p) == __get(data, p).err = "ok"

\* The value passes insert's and update's checks of the value: it is
\* classified and plistlib accepts it
ValueAccepted(v) ==
    get_entry_data_type_by_class(v).err = "ok" /\ plistlib_dumps_ok(v)

\* The value is plist data: each of its objects is of a class of a plist kind
RECURSIVE IsPlistValue(_)
IsPlistValue(v) ==
    /\ \E k \in KindNames : v.cls \in ENTRY_DATA_TYPES[k]
    /\ \A j \in 1..Len(v.items) : IsPlistValue(v.items[j])

\* The last call was an insert whose parent entry is a list; the index it
\* addressed
ArrayInsert ==
    /\ op = "insert"
    /\ PathOk
    /\ Len(NPath) > 0
    /\ Resolves(pre_data, ParentPath(NPath))
    /\ __get(pre_data, ParentPath(NPath)).value.cls = "list"
    /\ PyIntOf(LastKey(NPath)).ok

ArrayIndex == PyIntOf(LastKey(NPath)).n

ArrayBefore == __get(pre_data, ParentPath(NPath)).value.items

ArrayAfter == __get(plist_data, ParentPath(NPath)).value.items

\* The structural address of the entry that p resolves to: the positions
\* taken in items along the path
RECURSIVE PosOf(_, _)
PosOf(data, p) ==
    IF p = <<>> THEN <<>>
    ELSE LET j == IF data.cls = "dict"
                  THEN KeyPos(data.keys, PyStrOf(Head(p)))
                  ELSE ListPos(Len(data.items), PyIntOf(Head(p)).n)
         IN  <<j>> \o PosOf(data.items[j], Tail(p))

IsPrefix(a, b) == Len(a) <= Len(b) /\ SubSeq(b, 1, Len(a)) = a

-----------------------------------------------------------------------------
(* Properties *)

\* C1: insert_array_append is all-or-nothing: whenever the call fails, the
\* document is what it was before the call, and no array created by the
\* call remains.
C1_AppendAllOrNothing ==
    (op = "insert_array_append" /\ err # "ok") => plist_data = pre_data

\* C3: merge is all-or-nothing: whenever merge fails, at any point of its
\* recursion, the target document is what it was before the call; nothing
\* that was inserted or updated for earlier keys or indices of the source
\* remains.
C3_MergeAllOrNothing ==
    (op = "merge" /\ err # "ok") => plist_data = pre_data

\* C2: a failing call of insert, update, delete or upsert leaves the
\* document equal to its value before the call.
C2_FailedCallLeavesData ==
    (op \in {"insert", "update", "delete", "upsert"} /\ err # "ok")
        => plist_data = pre_data

\* C2 witness: an insert that passed every check but the last one (plistlib
\* refuses the value) and failed.
C2_Witness ==
    /\ op = "insert"
    /\ err = "InvalidPlistData"
    /\ Resolves(pre_data, ParentPath(NPath))
    /\ plist_data = pre_data

\* C4 as stated: for every path that resolves, insert fails with
\* AlreadyExists and the document keeps its value.
C4_InsertExistingAlreadyExists ==
    (op = "insert" /\ PathOk /\ Len(NPath) > 0 /\ Resolves(pre_data, NPath))
        => (err = "AlreadyExists" /\ plist_data = pre_data)

\* C4 amended: for every path that resolves, insert fails and the document
\* keeps its value; the failure is AlreadyExists whenever the value passed
\* the classification, which is checked before the path.
C4_InsertNeverOverwrites ==
    (op = "insert" /\ PathOk /\ Len(NPath) > 0 /\ Resolves(pre_data, NPath))
        => /\ err # "ok"
           /\ plist_data = pre_data
           /\ (get_entry_data_type_by_class(value).err = "ok"
                  => err = "AlreadyExists")

\* C4 witness: an insert at an array index below the length was refused.
C4_Witness ==
    /\ ArrayInsert
    /\ ArrayIndex >= 0
    /\ ArrayIndex < Len(ArrayBefore)
    /\ err = "AlreadyExists"

\* C5 as stated: an insert whose parent is an array accepts every index <=
\* length; below the length it inserts before the existing element and
\* shifts the rest right, at the length it appends.
C5_ArrayInsertShifts ==
    (ArrayInsert /\ ValueAccepted(value) /\ ArrayIndex <= Len(ArrayBefore))
        => /\ err = "ok"
           /\ ArrayAfter = ListInsert(ArrayBefore, ArrayIndex, value)

\* C5 amended: an insert whose parent is an array appends at index ==
\* length; at an index that addresses an existing element it fails with
\* AlreadyExists and the array is unchanged, nothing is shifted.
C5_ArrayInsertAppendsOnly ==
    (ArrayInsert /\ ValueAccepted(value))
        => /\ ArrayIndex = Len(ArrayBefore)
                => (err = "ok" /\ ArrayAfter = Append(ArrayBefore, value))
           /\ ListPos(Len(ArrayBefore), ArrayIndex) # 0
                => (err = "AlreadyExists" /\ plist_data = pre_data)

\* C5 witness: an accepted value was inserted at an index below the length
\* of a non-empty array and the call was refused.
C5_Witness ==
    /\ ArrayInsert
    /\ ValueAccepted(value)
    /\ ArrayIndex = 0
    /\ Len(ArrayBefore) = 2
    /\ err = "AlreadyExists"
    /\ ArrayAfter = ArrayBefore

\* C6: for every array of length n and every valid value, insert at index n
\* succeeds and makes the value the last element; insert at an index
\* greater than n fails with IndexOutOfRange and leaves the array unchanged.
C6_ArrayInsertionBoundary ==
    (ArrayInsert /\ IsPlistValue(value))
        => /\ ArrayIndex = Len(ArrayBefore)
                => (err = "ok" /\ ArrayAfter = Append(ArrayBefore, value))
           /\ ArrayIndex > Len(ArrayBefore)
                => (err = "IndexOutOfRange" /\ plist_data = pre_data)

\* C7: if insert(p, v) succeeds then exists(p) is true and get(p) equals v.
C7_InsertExistsDuality ==
    (op = "insert" /\ err = "ok")
        => /\ exists(plist_data, NPath).found
           /\ __get(plist_data, NPath).value = value

\* C8: if upsert(p, v) succeeds, a second upsert(p, v) succeeds and yields
\* the same document as the single call.
C8_UpsertIdempotent ==
    (op = "upsert" /\ err = "ok")
        => upsert(plist_data, path, value) = Done(plist_data)

\* C9: update with an empty path replaces a scalar root by the value, and
\* fails on an array or dict root, which is left unchanged.
C9_UpdateEmptyPath ==
    (op = "update" /\ PathOk /\ NPath = <<>> /\ IsPlistValue(value))
        => IF pre_data.cls \in {"list", "tuple", "dict"}
           THEN err # "ok" /\ plist_data = pre_data
           ELSE err = "ok" /\ plist_data = value

\* C10: a successful update with a non-empty path overwrites in place:
\* get(path) is the value, the parent keeps its length and its keys, and
\* every entry that is not at or below path keeps its value (an ancestor
\* of path keeps its class, keys and length).
C10_UpdateInPlace ==
    (op = "update" /\ err = "ok" /\ Len(NPath) > 0)
        => LET target == PosOf(pre_data, NPath)
           IN  /\ __get(plist_data, NPath) = [err |-> "ok", value |-> value]
               /\ PosOf(plist_data, NPath) = target
               /\ \A q \in AllPos(pre_data) :
                     IF IsPrefix(target, q) THEN TRUE
                     ELSE /\ q \in AllPos(plist_data)
                          /\ IF IsPrefix(q, target)
                             THEN /\ EntryAt(plist_data, q).cls = EntryAt(pre_data, q).cls
                                  /\ EntryAt(plist_data, q).keys = EntryAt(pre_data, q).keys
                                  /\ Len(EntryAt(plist_data, q).items)
                                        = Len(EntryAt(pre_data, q).items)
                             ELSE EntryAt(plist_data, q) = EntryAt(pre_data, q)
               /\ \A q \in AllPos(plist_data) :
                     IsPrefix(target, q) \/ q \in AllPos(pre_data)

\* C10 witness: an element of an array was updated to a value of another
\* class.
C10_Witness ==
    /\ op = "update"
    /\ err = "ok"
    /\ Len(NPath) > 0
    /\ __get(pre_data, ParentPath(NPath)).value.cls = "list"
    /\ __get(pre_data, NPath).value.cls # value.cls
    /\ __get(plist_data, NPath).value = value

\* The parent container of the last call's path, before and after the call
\* (the path resolved before the call)
ParentBefore == __get(pre_data, ParentPath(NPath)).value

ParentAfter == __get(plist_data, ParentPath(NPath)).value

\* Every entry outside the container at position parent is as it was before
\* the call; the ancestors of the container keep class, keys and length
OutsideUnchanged(parent) ==
    /\ \A q \in AllPos(pre_data) :
          IF IsPrefix(parent, q) /\ q # parent THEN TRUE
          ELSE /\ q \in AllPos(plist_data)
               /\ IF IsPrefix(q, parent)
                  THEN /\ EntryAt(plist_data, q).cls = EntryAt(pre_data, q).cls
                       /\ q # parent =>
                            /\ EntryAt(plist_data, q).keys = EntryAt(pre_data, q).keys
                            /\ Len(EntryAt(plist_data, q).items)
                                  = Len(EntryAt(pre_data, q).items)
                  ELSE EntryAt(plist_data, q) = EntryAt(pre_data, q)
    /\ \A q \in AllPos(plist_data) :
          (IsPrefix(parent, q) /\ q # parent) \/ q \in AllPos(pre_data)

\* C11: a successful delete(path) removes exactly the addressed entry: with
\* a dict parent the key is gone and all other keys keep their values; with
\* an array parent the array is one shorter, the elements before the index
\* are unchanged and every element after it moves down by one; nothing
\* outside the parent container changes.
C11_DeleteRemovesExactly ==
    (op = "delete" /\ err = "ok")
        => LET j == PosOf(pre_data, NPath)[Len(NPath)]
               n == Len(ParentBefore.items)
           IN  /\ Len(NPath) > 0
               /\ Resolves(plist_data, ParentPath(NPath))
               /\ OutsideUnchanged(PosOf(pre_data, ParentPath(NPath)))
               /\ PosOf(plist_data, ParentPath(NPath))
                     = PosOf(pre_data, ParentPath(NPath))
               /\ Len(ParentAfter.items) = n - 1
               /\ \A i \in 1..(j - 1) : ParentAfter.items[i] = ParentBefore.items[i]
               /\ \A i \in (j + 1)..n : ParentAfter.items[i - 1] = ParentBefore.items[i]
               /\ IF ParentBefore.cls = "dict"
                  THEN /\ ~exists(plist_data, NPath).found
                       /\ Len(ParentAfter.keys) = n - 1
                       /\ \A i \in 1..n :
                             i # j => /\ KeyPos(ParentAfter.keys, ParentBefore.keys[i]) # 0
                                      /\ ParentAfter.items[KeyPos(ParentAfter.keys,
                                                                  ParentBefore.keys[i])]
                                            = ParentBefore.items[i]
                  ELSE ParentAfter.keys = <<>>

\* C11 witness: the first element of an array of two was deleted and the
\* second moved down to index 0.
C11_Witness ==
    /\ op = "delete"
    /\ err = "ok"
    /\ ParentBefore.cls = "list"
    /\ Len(ParentBefore.items) = 2
    /\ PosOf(pre_data, NPath)[Len(NPath)] = 1
    /\ ParentAfter.items = <<ParentBefore.items[2]>>

\* The document before the last call had a scalar root (a value of one of
\* the six scalar kinds)
ScalarRootBefore == pre_data.cls \notin {"list", "tuple", "dict"}

\* C12: on a document whose root is a scalar, insert, insert_array_append
\* and delete, and update or upsert with a non-empty path, fail with
\* RootNotContainer and leave the root unchanged; the only mutation that
\* changes such a document is a replacement of the whole root through the
\* empty path.
C12_ScalarRootRefuses ==
    (ScalarRootBefore /\ op # "new" /\ op # "merge" /\ PathOk)
        => /\ (op \in {"insert", "insert_array_append", "delete"}
                \/ Len(NPath) > 0)
                  => (err = "RootNotContainer" /\ plist_data = pre_data)
           /\ plist_data # pre_data
                  => (op \in {"update", "upsert"} /\ NPath = <<>>
                      /\ plist_data = value)

\* Path resolution as the specification states it: every component selects
\* a present key of a dict (taken as a string) or an index i with
\* 0 <= i < length of an array (coerced to an integer); nothing lies below
\* a scalar
RECURSIVE StatedResolves(_, _)
StatedResolves(data, p) ==
    IF p = <<>> THEN TRUE
    ELSE IF data.cls = "dict"
    THEN /\ KeyPos(data.keys, PyStrOf(Head(p))) # 0
         /\ StatedResolves(data.items[KeyPos(data.keys, PyStrOf(Head(p)))], Tail(p))
    ELSE IF data.cls \in {"list", "tuple"}
    THEN /\ PyIntOf(Head(p)).ok
         /\ 0 <= PyIntOf(Head(p)).n
         /\ PyIntOf(Head(p)).n < Len(data.items)
         /\ StatedResolves(data.items[PyIntOf(Head(p)).n + 1], Tail(p))
    ELSE FALSE

\* The error get raises for a path that does not resolve (NotFound)
GetNotFound == "KeyError"

\* C13: get and exists succeed exactly when every component of the path
\* selects a present key of a dict or an index 0 <= i < length of an array;
\* in every other case (missing key, index outside 0..length-1, component
\* not coercible to an integer, a component after a scalar) get fails with
\* NotFound and exists returns false without raising.
C13_PathResolution ==
    /\ (op = "get" /\ PathOk)
          => IF StatedResolves(pre_data, NPath)
             THEN err = "ok" /\ returned.value = __get(pre_data, NPath).value
             ELSE err = GetNotFound
    /\ (op = "exists" /\ PathOk)
          => /\ err = "ok"
             /\ returned.value
                   = PyBool(IF StatedResolves(pre_data, NPath) THEN 1 ELSE 0)

\* The one kind of a value of a plist class, as the specification states
\* the classification
StatedKind(c) ==
    IF c \in {"list", "tuple"} THEN "array"
    ELSE IF c = "dict" THEN "dict"
    ELSE IF c = "bool" THEN "bool"
    ELSE IF c \in {"bytes", "bytearray"} THEN "data"
    ELSE IF c = "datetime" THEN "date"
    ELSE IF c = "int" THEN "integer"
    ELSE IF c = "float" THEN "real"
    ELSE "string"

\* C14: classification is total and unambiguous: for every entry of the
\* document (the root included) get_type returns the one kind of the value,
\* and no call ends in the 'matched more than one kind' internal error.
C14_ClassificationUnambiguous ==
    /\ err # "OverflowError"
    /\ (op = "get_type" /\ PathOk /\ StatedResolves(pre_data, NPath))
          => /\ err = "ok"
             /\ returned.name = StatedKind(__get(pre_data, NPath).value.cls)

\* C15: the value that get or get_data returned is independent of the
\* document: after a mutation of the returned value at any nesting depth
\* the document, and with it the result of every get, is what it was before
\* the mutation.
C15_GetReturnsIndependentCopy ==
    op = "mutate_result"
        => /\ plist_data = pre_data
           /\ \A p \in Paths : get(plist_data, p).err = get(pre_data, p).err
                              /\ get(plist_data, p).result.value
                                    = get(pre_data, p).result.value

MergeDone == op = "merge" /\ err = "ok"

\* The overwrite flag of the last merge
OverwriteOn == overwrite = PyBool(1)

\* The source value of the last merge: the entry at source_path of the
\* content of the source document
SourceValue ==
    __get(plistlib_load(value), normalize_path(source_path).path).value

\* The path below the source value e of its entry at position q: the key
\* of a dict, the index of an array
RECURSIVE SourcePathOf(_, _)
SourcePathOf(e, q) ==
    IF q = <<>> THEN <<>>
    ELSE <<IF e.cls = "dict" THEN S(e.keys[Head(q)]) ELSE I(Head(q) - 1)>>
            \o SourcePathOf(e.items[Head(q)], Tail(q))

\* The path in the target that corresponds to position q of the source
\* value
TargetPathOf(q) == NPath \o SourcePathOf(SourceValue, q)

\* Position q of the source value is a key or index of a source container
\* whose corresponding target entry was an existing container before the
\* merge
InExistingContainer(q) ==
    /\ q # <<>>
    /\ Resolves(pre_data, TargetPathOf(ParentPath(q)))
    /\ __get(pre_data, TargetPathOf(ParentPath(q))).value.cls
          \in {"list", "tuple", "dict"}

\* C18: for both values of overwrite, every key or index of a source
\* container that is missing from the corresponding existing target
\* container is inserted by a successful merge: afterwards the entry exists
\* in the target and equals the source's value for it.
C18_MissingKeysInserted ==
    MergeDone
        => \A q \in AllPos(SourceValue) :
              (InExistingContainer(q) /\ ~Resolves(pre_data, TargetPathOf(q)))
                  => /\ Resolves(plist_data, TargetPathOf(q))
                     /\ __get(plist_data, TargetPathOf(q)).value
                           = EntryAt(SourceValue, q)

\* C19: merge with overwrite=False only adds: every path that resolved in
\* the target before the merge still resolves afterwards, and every scalar
\* entry of the target keeps its value, also when the source holds another
\* scalar, a scalar of another kind, or a container at that path.
C19_NoOverwriteOnlyAdds ==
    (op = "merge" /\ overwrite = PyBool(0))
        => /\ \A p \in Paths \cup TargetPaths \cup AfterPaths :
                 (normalize_path(p).err = "ok"
                  /\ Resolves(pre_data, normalize_path(p).path))
                     => Resolves(plist_data, normalize_path(p).path)
           /\ \A q \in AllPos(pre_data) :
                 /\ q \in AllPos(plist_data)
                 /\ EntryAt(pre_data, q).cls \notin {"list", "tuple", "dict"}
                       => EntryAt(plist_data, q) = EntryAt(pre_data, q)

\* C20: after a successful merge with overwrite=True, for every path q that
\* addresses a scalar inside the source value, get(target_path + q) on the
\* target is that scalar, whatever the target held there before; arrays
\* are aligned by index.
C20_OverwriteTakesSourceScalars ==
    (MergeDone /\ OverwriteOn)
        => \A q \in AllPos(SourceValue) :
              EntryAt(SourceValue, q).cls \notin {"list", "tuple", "dict"}
                  => /\ Resolves(plist_data, TargetPathOf(q))
                     /\ __get(plist_data, TargetPathOf(q)).value
                           = EntryAt(SourceValue, q)

\* The path component of child j of the container c: the key of a dict,
\* the index of an array
ChildKey(c, j) == IF c.cls = "dict" THEN S(c.keys[j]) ELSE I(j - 1)

\* Child j of the target container t has no counterpart in the source
\* container sc: no key or index of sc names the key (as a string) or the
\* index (as an integer) of that child
OnlyInTarget(t, sc, j) ==
    ~\E k \in 1..Len(sc.items) :
        IF t.cls = "dict"
        THEN PyStrOf(ChildKey(sc, k)) = t.keys[j]
        ELSE PyIntOf(ChildKey(sc, k)).ok /\ PyIntOf(ChildKey(sc, k)).n = j - 1

\* Position q of the source value holds a container and the corresponding
\* entry of the target was a container before the merge
BothContainers(q) ==
    /\ EntryAt(SourceValue, q).cls \in {"list", "tuple", "dict"}
    /\ Resolves(pre_data, TargetPathOf(q))
    /\ __get(pre_data, TargetPathOf(q)).value.cls \in {"list", "tuple", "dict"}

\* The target container that corresponds to position q of the source value,
\* before the merge, and the entry at its place after the merge
TargetBefore(q) == __get(pre_data, TargetPathOf(q)).value

TargetAfter(q) == EntryAt(plist_data, PosOf(pre_data, TargetPathOf(q)))

\* Child j of the container t is present in the container u under the same
\* key or index with the same value
ChildKept(t, u, j) ==
    /\ u.cls = t.cls
    /\ IF t.cls = "dict"
       THEN /\ KeyPos(u.keys, t.keys[j]) > 0
            /\ u.items[KeyPos(u.keys, t.keys[j])] = t.items[j]
       ELSE /\ j <= Len(u.items)
            /\ u.items[j] = t.items[j]

\* C21: when the value at the target path and the source value are both
\* containers, merge recurses and never replaces the target container as a
\* whole, for either value of overwrite: every key or index that exists
\* only in the target container is still present with its previous value
\* after the merge.
C21_ContainersMergedNotReplaced ==
    MergeDone
        => \A q \in AllPos(SourceValue) :
              BothContainers(q)
                  => /\ PosOf(pre_data, TargetPathOf(q)) \in AllPos(plist_data)
                     /\ \A j \in 1..Len(TargetBefore(q).items) :
                           OnlyInTarget(TargetBefore(q), EntryAt(SourceValue, q), j)
                               => ChildKept(TargetBefore(q), TargetAfter(q), j)

\* The arguments of the last merge pass merge's own checks: overwrite is a
\* bool, the source is of a known kind and the source path resolves in the
\* source document
SourceResolved ==
    /\ overwrite.cls = "bool"
    /\ source_plist_info_type \in PLIST_INFO_TYPES
    /\ normalize_path(source_path).err = "ok"
    /\ __get(plistlib_load(value), normalize_path(source_path).path).err = "ok"

\* C22: on a document whose root is a scalar, merge with an empty target
\* path replaces the root by the source value when overwrite is True (for
\* a source value of any kind) and leaves the document unchanged when
\* overwrite is False; merge with a non-empty target path fails with
\* RootNotContainer and leaves the document unchanged.
C22_MergeIntoScalarRoot ==
    (op = "merge" /\ ScalarRootBefore /\ PathOk /\ SourceResolved)
        => IF NPath = <<>>
           THEN /\ err = "ok"
                /\ plist_data = (IF OverwriteOn THEN SourceValue ELSE pre_data)
           ELSE /\ err = "RootNotContainer"
                /\ plist_data = pre_data

\* Position q of the source value holds an array and the corresponding
\* entry of the target was an array before the merge
BothArrays(q) ==
    /\ BothContainers(q)
    /\ EntryAt(SourceValue, q).cls \in {"list", "tuple"}
    /\ TargetBefore(q).cls \in {"list", "tuple"}

Max(a, b) == IF a >= b THEN a ELSE b

\* The element new stands at its index for the target element old that met
\* the source element src: it is old itself, or src, or old merged with src
\* (a container of the class of old)
SameElement(old, src, new) ==
    \/ new = old
    \/ new = src
    \/ /\ old.cls \in {"list", "tuple", "dict"}
       /\ src.cls \in {"list", "tuple", "dict"}
       /\ new.cls = old.cls

\* The target array t of length n, merged with the source array sc of
\* length m, became u: u has length max(m, n), the elements n..m-1 of sc
\* were appended in source order, and each element of t kept its index
ArrayMerged(t, sc, u) ==
    /\ u.cls = t.cls
    /\ Len(u.items) = Max(Len(sc.items), Len(t.items))
    /\ \A j \in 1..Len(u.items) :
          IF j > Len(t.items) THEN u.items[j] = sc.items[j]
          ELSE IF j > Len(sc.items) THEN u.items[j] = t.items[j]
          ELSE SameElement(t.items[j], sc.items[j], u.items[j])

\* C23: merging a source array of length m into an existing target array of
\* length n yields a target array of length max(m, n), for both values of
\* overwrite: the source's elements n..m-1 are appended in source order with
\* the source's values, and no existing target element changes its index.
C23_ArrayMergeLength ==
    MergeDone
        => \A q \in AllPos(SourceValue) :
              BothArrays(q)
                  => /\ PosOf(pre_data, TargetPathOf(q)) \in AllPos(plist_data)
                     /\ ArrayMerged(TargetBefore(q), EntryAt(SourceValue, q),
                                    TargetAfter(q))

\* A source array of length 4 was merged into a target array of length 2,
\* which has length 4 afterwards
C23_Witness ==
    /\ MergeDone
    /\ \E q \in AllPos(SourceValue) :
          /\ BothArrays(q)
          /\ Len(TargetBefore(q).items) = 2
          /\ Len(EntryAt(SourceValue, q).items) = 4
          /\ Len(TargetAfter(q).items) = 4

\* The error of the step of insert_array_append's try block that failed in
\* the last call, which had created the target array: the outcome of the
\* try block on the document with the created array, without the rollback
FailedStepError ==
    append_to_entry(insert(pre_data, path, PyList(<<>>)).data, FALSE, NPath,
                    value).err

\* C27: when insert_array_append fails after it created the target array,
\* the error reported is the error of the step that failed (such as
\* InvalidValueType), re-raised after the rollback; the rollback itself does
\* not fail and does not replace that error.
C27_AppendReportsStepError ==
    (op = "insert_array_append" /\ created /\ err # "ok")
        => err = FailedStepError

\* C29: merge is idempotent: if merge succeeds, the same merge (same source,
\* source path, target path and overwrite) a second time also succeeds and
\* leaves the target document exactly as it was after the first.
C29_MergeIdempotent ==
    MergeDone
        => merge(plist_data, source_plist_info_type, value, source_path, path,
                 overwrite) = Done(plist_data)

\* C30: insert followed by delete of the same path is a round trip: whenever
\* insert(path, value) succeeds, a following delete(path) succeeds and the
\* document is again what it was before the insert.
C30_InsertDeleteRoundTrip ==
    (op = "insert" /\ err = "ok") => delete(plist_data, path) = Done(pre_data)

\* The process of the command line has ended: it exited or was killed
Ended == pc \in {"exit", "crashed"}

\* The target file holds a complete document: the one it held when the run
\* began, or the document of the engine in one of the wire formats
FileIntact ==
    \/ file = file_before
    \/ file \in {FileOf(plist_data, f) : f \in {"xml", "binary"}}

\* C24: persisting to a file (write, and every operation whose post step
\* persists to the file) never corrupts a previously valid file: when the
\* run has ended, after a failure of the serialization or a crash during
\* the write included, the target file holds the complete previous content
\* or the complete new content, never an empty or partial file.
C24_FileNeverCorrupted ==
    (Ended /\ file_before.state = "complete") => FileIntact

\* The run was the subcommand exists and the engine returned False
ExistsReturnedFalse ==
    /\ op = "exists"
    /\ err = "ok"
    /\ ~exists(pre_data, NPath).found

\* The exit status of a run of exists that returned False: int(not False)
ExistsFalseStatus == 1 - PyBool(0).val

\* C25: the command line exits with status 0 on success and with a non-zero
\* status on any failure, and the status of an exists that returned false
\* is distinct from the status of every failure.
C25_ExitCodes ==
    pc = "exit"
        => /\ (err = "ok" /\ ~ExistsReturnedFalse) => exit_code = 0
           /\ ExistsReturnedFalse => exit_code = ExistsFalseStatus
           /\ err # "ok" => (exit_code # 0 /\ exit_code # ExistsFalseStatus)

\* The run was one of insert, insertArrayAppend, update and upsert, with a
\* data type, on a target file that could be opened
ValueRun ==
    /\ pc # "start"
    /\ HasValueArguments(args.action_name)
    /\ args.action_name \in __ACTIONS(cli_module)
    /\ args.value_data_type \in KindNames
    /\ file_before.state = "complete"

\* The command line accepted the arguments: the engine method was called
\* with the value v
AcceptedWith(v) == op = args.action_name /\ value = v

\* The command line accepted the arguments and handed a value of the data
\* type to the engine method
AcceptedOfType == op = args.action_name /\ StatedKind(value.cls) = args.value_data_type

\* The run was refused: it ended with a non-zero status and an error, and
\* neither the document nor the file was changed
Rejected ==
    /\ pc = "exit"
    /\ exit_code # 0
    /\ err # "ok"
    /\ plist_data = pre_data
    /\ file = file_before

\* The text is a literal of the data type (every text is a string, data or
\* bool literal)
IsLiteralOf(t, text) ==
    IF t \in {"integer", "real"} THEN text = "3"
    ELSE IF t = "date" THEN text = "2020-01-01"
    ELSE TRUE

\* C26: for insert, insertArrayAppend, update and upsert: data type array or
\* dict with no --value is accepted and the value is the empty container;
\* array or dict with --value is rejected; a scalar data type with no
\* --value is rejected; a scalar data type with --value is accepted and the
\* literal is converted to the data type.
C26_ValueDataTypeRule ==
    ValueRun
        => IF args.value_data_type \in {"array", "dict"}
           THEN IF ~args.value.given
                THEN AcceptedWith(IF args.value_data_type = "array"
                                  THEN PyList(<<>>) ELSE PyDict(<<>>, <<>>))
                ELSE Rejected /\ op = "none"
           ELSE IF ~args.value.given
                THEN Rejected
                ELSE IsLiteralOf(args.value_data_type, args.value.text)
                        => /\ AcceptedOfType
                           /\ args.value_data_type = "integer" => value = PyInt(3)
                           /\ args.value_data_type = "bool"
                                 => value = PyBool(IF args.value.text = " YES "
                                                   THEN 1 ELSE 0)

\* The run was a mutating subcommand (its post step is write_to_file)
MutatingRun ==
    /\ pc # "start"
    /\ args.action_name \in __ACTIONS(cli_module)
    /\ main_method_post(args.action_name) = "write_to_file"

\* The engine operation of the run was called and succeeded
EngineSucceeded ==
    /\ op = args.action_name
    /\ main_method(op, pre_data, path, value).err = "ok"

\* write is under way or done
Writing == pc \in {"write", "dumped", "opened", "copying", "written"}

=============================================================================
